---- MODULE Spec2Model ----
(***************************************************************************)
(* Model of the video normalization pipeline: src/main.py (the normalizer: *)
(* probe, classification, filter-chain construction, single-file and batch *)
(* orchestration) and src/verify.py (the verifier of produced files).      *)
(*                                                                         *)
(* Python strings are modelled as sequences of one-character strings, so   *)
(* that `in` (substring), .lower(), Path.suffix and Path.stem are computed *)
(* rather than assumed.                                                    *)
(***************************************************************************)
EXTENDS Integers, Sequences, FiniteSets, TLC

VARIABLES
    args_input,      \* main.py: what args.input resolves to (dir with entries / file / invalid)
    files,           \* main.py main(): the list `files` (batch) or the one input (single)
    idx,             \* main.py main(): position of the for loop over `files`
    pc,              \* main.py: position of the normalizer process
    exitCode,        \* main.py: process exit status (-1 while running)
    info,            \* build_ffmpeg_command: `info`, the probed stream dict
    transfer,        \* build_ffmpeg_command: `transfer`
    color_space,     \* build_ffmpeg_command: `color_space`
    primaries,       \* build_ffmpeg_command: `primaries`
    pix_fmt,         \* build_ffmpeg_command: `pix_fmt`
    is_probably_hdr, \* build_ffmpeg_command: `is_probably_hdr`
    branch,          \* build_ffmpeg_command: which arm of the if/elif chain ran
    cmd,             \* build_ffmpeg_command: the returned ffmpeg argv
    calls,           \* history: arguments of every process_single_file call
    log,             \* history: the steps taken, each tagged with its job
    outputs,         \* files the engine has written into the output directory
    vdir,            \* verify.py: the names present in outputs/
    vfiles,          \* verify.py main(): `files`
    vidx,            \* verify.py main(): position of the for loop
    all_passed,      \* verify.py main(): `all_passed`
    vresults,        \* history: return value of every check_file call
    readable,        \* check_file: whether get_metadata returned in the last call
    data,            \* check_file: `data` of the last call
    errors,          \* check_file: `errors` of the last call
    vpc,             \* verify.py: position of the verifier process
    vmsg,            \* verify.py main(): the summary line printed
    vexit            \* verify.py: process exit status (-1 while running)

planVars == <<info, transfer, color_space, primaries, pix_fmt, is_probably_hdr, branch, cmd>>
normVars == <<args_input, files, idx, pc, exitCode, calls, log, outputs>>
verVars  == <<vdir, vfiles, vidx, all_passed, vresults, readable, data, errors, vpc, vmsg, vexit>>
vars     == <<planVars, normVars, verVars>>

(***************************************************************************)
(* Bounds of the model.                                                    *)
(***************************************************************************)
MaxEntries == 3     \* directory entries offered to batch mode
MaxOutputs == 2     \* names present in outputs/ when the verifier starts

(***************************************************************************)
(* String literals of the source, as character sequences.                  *)
(***************************************************************************)
S_arib_std_b67 == <<"a", "r", "i", "b", "-", "s", "t", "d", "-", "b", "6", "7">>
S_smpte2084 == <<"s", "m", "p", "t", "e", "2", "0", "8", "4">>
S_bt709 == <<"b", "t", "7", "0", "9">>
S_unknown == <<"u", "n", "k", "n", "o", "w", "n">>
S_bt2020 == <<"b", "t", "2", "0", "2", "0">>
S_yuv420p == <<"y", "u", "v", "4", "2", "0", "p">>
S_p010le == <<"p", "0", "1", "0", "l", "e">>
S_p016le == <<"p", "0", "1", "6", "l", "e">>
S_yuv420p10le == <<"y", "u", "v", "4", "2", "0", "p", "1", "0", "l", "e">>
S_yuv422p10le == <<"y", "u", "v", "4", "2", "2", "p", "1", "0", "l", "e">>
S_yuv444p10le == <<"y", "u", "v", "4", "4", "4", "p", "1", "0", "l", "e">>
S_yuv420p12le == <<"y", "u", "v", "4", "2", "0", "p", "1", "2", "l", "e">>
S_yuv422p12le == <<"y", "u", "v", "4", "2", "2", "p", "1", "2", "l", "e">>
S_yuv444p12le == <<"y", "u", "v", "4", "4", "4", "p", "1", "2", "l", "e">>
S_10le == <<"1", "0", "l", "e">>
S_12le == <<"1", "2", "l", "e">>
S_empty == <<>>
S_normalized == <<"_", "n", "o", "r", "m", "a", "l", "i", "z", "e", "d">>
S_ext_mp4 == <<".", "m", "p", "4">>
S_ext_mov == <<".", "m", "o", "v">>
S_ext_mkv == <<".", "m", "k", "v">>
S_ext_avi == <<".", "a", "v", "i">>
S_glob_tail == <<"_", "n", "o", "r", "m", "a", "l", "i", "z", "e", "d", ".", "m", "p", "4">>

(***************************************************************************)
(* Input values the model draws from (probe answers and file names).       *)
(***************************************************************************)
S_bt2020nc == <<"b", "t", "2", "0", "2", "0", "n", "c">>
S_gbrp12le == <<"g", "b", "r", "p", "1", "2", "l", "e">>
S_yuv420p10be == <<"y", "u", "v", "4", "2", "0", "p", "1", "0", "b", "e">>
S_a_mp4 == <<"a", ".", "m", "p", "4">>
S_b_mov == <<"b", ".", "m", "o", "v">>
S_c_MKV == <<"c", ".", "M", "K", "V">>
S_d_avi == <<"d", ".", "a", "v", "i">>
S_readme_txt == <<"r", "e", "a", "d", "m", "e", ".", "t", "x", "t">>
S_hidden_mp4 == <<".", "m", "p", "4">>
S_out_mp4 == <<"o", ".", "m", "p", "4">>
S_a_normalized_mp4 == <<"a">> \o S_glob_tail
S_d_normalized_mp4 == <<"d">> \o S_glob_tail
S_b_normalized_mov == <<"b">> \o S_normalized \o S_ext_mov
S_e_normalized_mp4 == <<"e">> \o S_glob_tail
S_dot_normalized_mp4 == <<".">> \o S_glob_tail

(***************************************************************************)
(* Python string operations.                                               *)
(***************************************************************************)
UpperChars == <<"A", "B", "C", "D", "E", "F", "G", "H", "I", "J", "K", "L", "M",
                "N", "O", "P", "Q", "R", "S", "T", "U", "V", "W", "X", "Y", "Z">>
LowerChars == <<"a", "b", "c", "d", "e", "f", "g", "h", "i", "j", "k", "l", "m",
                "n", "o", "p", "q", "r", "s", "t", "u", "v", "w", "x", "y", "z">>

\* str.lower() of one character
LowerChar(c) ==
    IF \E i \in 1..Len(UpperChars) : UpperChars[i] = c
    THEN LowerChars[CHOOSE i \in 1..Len(UpperChars) : UpperChars[i] = c]
    ELSE c

\* str.lower()
Lower(s) == [i \in 1..Len(s) |-> LowerChar(s[i])]

\* Python `sub in s` on strings
Contains(sub, s) ==
    \E i \in 0..(Len(s) - Len(sub)) : SubSeq(s, i + 1, i + Len(sub)) = sub

\* str.rfind('.'), 0-based, -1 when absent
RFindDot(name) ==
    LET hits == {i \in 1..Len(name) : name[i] = "."}
    IN  IF hits = {} THEN -1
        ELSE (CHOOSE i \in hits : \A j \in hits : j <= i) - 1

\* pathlib PurePath.suffix of a file name
Suffix(name) ==
    LET i == RFindDot(name)
    IN  IF 0 < i /\ i < Len(name) - 1 THEN SubSeq(name, i + 1, Len(name)) ELSE S_empty

\* pathlib PurePath.stem of a file name
Stem(name) ==
    LET i == RFindDot(name)
    IN  IF 0 < i /\ i < Len(name) - 1 THEN SubSeq(name, 1, i) ELSE name

\* dict.get(key, default)
DictGet(d, key, default) == IF key \in DOMAIN d THEN d[key] ELSE default

\* All orderings of a finite set (the order of iterdir() and glob() is unspecified)
Orderings(S) ==
    {s \in [1..Cardinality(S) -> S] : \A i, j \in 1..Cardinality(S) : s[i] = s[j] => i = j}

Last(s) == s[Len(s)]

(***************************************************************************)
(* main.py: classification and filter-chain construction.                  *)
(***************************************************************************)
hdr_pix_fmts ==
    {S_p010le, S_p016le,
     S_yuv420p10le, S_yuv422p10le, S_yuv444p10le,
     S_yuv420p12le, S_yuv422p12le, S_yuv444p12le}

hdr_transfers == {S_arib_std_b67, S_smpte2084}

\* A slip that requires both signals instead of either one.
is_hdr_both_signals(tr, cs, pr, pf) ==
    LET hdr_like_colors == Contains(S_bt2020, pr) \/ Contains(S_bt2020, cs)
        hdr_like_bitdepth == pf \in hdr_pix_fmts
                             \/ Contains(S_10le, pf) \/ Contains(S_12le, pf)
    IN  (tr \notin hdr_transfers) /\ (hdr_like_colors /\ hdr_like_bitdepth)

is_hdr(tr, cs, pr, pf) ==
    LET hdr_like_colors == Contains(S_bt2020, pr) \/ Contains(S_bt2020, cs)
        hdr_like_bitdepth == pf \in hdr_pix_fmts
                             \/ Contains(S_10le, pf) \/ Contains(S_12le, pf)
    IN  (tr \notin hdr_transfers) /\ (hdr_like_colors \/ hdr_like_bitdepth)

\* The arm of the if/elif chain of build_ffmpeg_command that runs.
Branch(tr, probably_hdr) ==
    IF tr = S_arib_std_b67 THEN "HLG"
    ELSE IF tr = S_smpte2084 THEN "PQ"
    ELSE IF probably_hdr THEN "HeuristicHDR"
    ELSE "SDR"

\* The filter_chain literal of each arm, split at its commas.
hlg_chain ==
    <<"zscale=t=linear:npl=100", "format=gbrpf32le",
      "zscale=p=bt709",
      "tonemap=tonemap=hable:desat=0",
      "zscale=t=bt709:m=bt709:r=tv", "format=yuv420p">>

pq_chain ==
    <<"format=p010le",
      "zscale=t=linear:npl=100", "format=gbrpf32le",
      "zscale=p=bt709",
      "tonemap=tonemap=hable:desat=0",
      "zscale=t=bt709:m=bt709:r=tv", "format=yuv420p">>

fallback_chain ==
    <<"format=p010le",
      "zscale=t=linear:npl=100", "format=gbrpf32le",
      "zscale=p=bt709",
      "tonemap=tonemap=hable:desat=0",
      "zscale=t=bt709:m=bt709:r=tv", "format=yuv420p">>

sdr_chain == <<"colorspace=all=bt709:trc=bt709:format=yuv420p">>

\* A slip that gives the fallback arm the HLG chain (no 10-bit forcing stage).
FilterChainFallbackAsHLG(b) ==
    CASE b = "HLG" -> hlg_chain
      [] b = "PQ" -> pq_chain
      [] b = "HeuristicHDR" -> hlg_chain
      [] OTHER -> sdr_chain

FilterChain(b) ==
    CASE b = "HLG" -> hlg_chain
      [] b = "PQ" -> pq_chain
      [] b = "HeuristicHDR" -> fallback_chain
      [] OTHER -> sdr_chain

\* The argv list returned by build_ffmpeg_command.
FfmpegCmd(input_path, filter_chain, output_path) ==
    <<"ffmpeg", "-y", "-i", input_path, "-vf", filter_chain,
      "-c:v", "libx264", "-preset", "slow", "-crf", "23", "-c:a", "copy",
      output_path>>

\* Value of build_ffmpeg_command's locals outside a call.
NoLocals ==
    /\ info' = <<>>
    /\ transfer' = <<>>
    /\ color_space' = <<>>
    /\ primaries' = <<>>
    /\ pix_fmt' = <<>>
    /\ is_probably_hdr' = FALSE
    /\ branch' = "none"
    /\ cmd' = <<>>

InitLocals ==
    /\ info = <<>>
    /\ transfer = <<>>
    /\ color_space = <<>>
    /\ primaries = <<>>
    /\ pix_fmt = <<>>
    /\ is_probably_hdr = FALSE
    /\ branch = "none"
    /\ cmd = <<>>

(***************************************************************************)
(* Inputs of the normalizer: directory listings and probe answers.         *)
(***************************************************************************)
NamePool == {S_a_mp4, S_b_mov, S_c_MKV, S_d_avi, S_readme_txt, S_hidden_mp4}

InfoKeys == {"color_transfer", "color_space", "color_primaries", "pix_fmt"}

Restrict(r, D) == [k \in D |-> r[k]]

\* Stream dicts ffprobe can answer with; a key it does not report is absent.
FullInfoPool ==
    {Restrict(r, D) :
        r \in [color_transfer : {S_arib_std_b67, S_smpte2084, S_bt709, S_unknown},
               color_space : {S_bt709, S_bt2020nc},
               color_primaries : {S_bt709, S_bt2020},
               pix_fmt : {S_yuv420p, S_yuv420p10le, S_p016le, S_gbrp12le, S_yuv420p10be}],
        D \in SUBSET InfoKeys}

\* One answer per arm of the if/elif chain, for the orchestration runs.
ProbePool ==
    {[color_transfer |-> S_arib_std_b67, color_space |-> S_bt2020nc,
      color_primaries |-> S_bt2020, pix_fmt |-> S_yuv420p10le],
     [color_transfer |-> S_smpte2084, color_space |-> S_bt2020nc,
      color_primaries |-> S_bt2020, pix_fmt |-> S_yuv420p10le],
     [color_primaries |-> S_bt709, pix_fmt |-> S_yuv420p10le],
     [color_transfer |-> S_bt709, color_space |-> S_bt709,
      color_primaries |-> S_bt709, pix_fmt |-> S_yuv420p]}

(***************************************************************************)
(* main.py: main() and process_single_file().                              *)
(***************************************************************************)
supported_ext == {S_ext_mp4, S_ext_mov, S_ext_mkv, S_ext_avi}

\* A slip that compares the suffix without lowering it.
SelectedEntriesCaseSensitive(entries) == {f \in entries : Suffix(f) \in supported_ext}

\* The comprehension over input_path.iterdir()
SelectedEntries(entries) == {f \in entries : Lower(Suffix(f)) \in supported_ext}

\* new_filename of the batch loop
NewFilename(video_file) == Stem(video_file) \o S_normalized \o Suffix(video_file)

\* The output argument of the current process_single_file call
Destination ==
    IF args_input.kind = "dir" THEN NewFilename(files[idx]) ELSE args_input.output

Event(step) == [job |-> idx, step |-> step]

\* process_single_file returns to main(): next iteration, or main() falls off its end
Return ==
    /\ IF args_input.kind = "dir" /\ idx < Len(files)
       THEN /\ idx' = idx + 1
            /\ pc' = "call"
            /\ exitCode' = exitCode
       ELSE /\ idx' = idx
            /\ pc' = "exit"
            /\ exitCode' = 0
    /\ NoLocals

\* A slip that goes on to the probe although the input is missing.
AfterExistsNoReturn(exists) == "probe"

\* The early return of process_single_file
AfterExists(exists) == IF exists THEN "probe" ELSE "return"

MainBatch ==
    /\ pc = "main"
    /\ args_input.kind = "dir"
    /\ \E fs \in Orderings(SelectedEntries(args_input.entries)) :
          /\ files' = fs
          /\ IF fs = <<>>
             THEN pc' = "exit" /\ exitCode' = 0 /\ idx' = idx
             ELSE pc' = "call" /\ exitCode' = exitCode /\ idx' = 1
    /\ UNCHANGED <<args_input, calls, log, outputs, planVars, verVars>>

MainSingle ==
    /\ pc = "main"
    /\ args_input.kind = "file"
    /\ files' = <<args_input.name>>
    /\ idx' = 1
    /\ pc' = "call"
    /\ UNCHANGED <<args_input, exitCode, calls, log, outputs, planVars, verVars>>

MainInvalid ==
    /\ pc = "main"
    /\ args_input.kind = "invalid"
    /\ pc' = "exit"
    /\ exitCode' = 1
    /\ UNCHANGED <<args_input, files, idx, calls, log, outputs, planVars, verVars>>

\* process_single_file is entered and tests os.path.exists(input_path)
CheckExists ==
    /\ pc = "call"
    /\ calls' = Append(calls, [input |-> files[idx], output |-> Destination])
    /\ \E exists \in BOOLEAN :
          /\ log' = Append(log, Event(IF exists THEN "exists" ELSE "missing"))
          /\ IF AfterExists(exists) = "return"
             THEN Return
             ELSE /\ pc' = "probe"
                  /\ UNCHANGED <<idx, exitCode, planVars>>
    /\ UNCHANGED <<args_input, files, outputs, verVars>>

\* get_video_info: any failure of ffprobe or of parsing its answer ends the process
Probe ==
    /\ pc = "probe"
    /\ \/ /\ log' = Append(log, Event("probe_fail"))
          /\ pc' = "exit"
          /\ exitCode' = 1
          /\ UNCHANGED info
       \/ \E r \in ProbePool :
             /\ info' = r
             /\ log' = Append(log, Event("probe_ok"))
             /\ pc' = "classify"
             /\ UNCHANGED exitCode
    /\ UNCHANGED <<args_input, files, idx, calls, outputs, verVars,
                   transfer, color_space, primaries, pix_fmt, is_probably_hdr, branch, cmd>>

\* build_ffmpeg_command, from reading `info` to is_probably_hdr
Classify ==
    /\ pc = "classify"
    /\ transfer' = DictGet(info, "color_transfer", S_unknown)
    /\ color_space' = Lower(DictGet(info, "color_space", S_empty))
    /\ primaries' = Lower(DictGet(info, "color_primaries", S_empty))
    /\ pix_fmt' = Lower(DictGet(info, "pix_fmt", S_empty))
    /\ is_probably_hdr' = is_hdr(transfer', color_space', primaries', pix_fmt')
    /\ log' = Append(log, Event("classify"))
    /\ pc' = "plan"
    /\ UNCHANGED <<args_input, files, idx, exitCode, calls, outputs, verVars,
                   info, branch, cmd>>

\* build_ffmpeg_command, the if/elif chain and the assembly of cmd
BuildPlan ==
    /\ pc = "plan"
    /\ branch' = Branch(transfer, is_probably_hdr)
    /\ cmd' = FfmpegCmd(Last(calls).input, FilterChain(branch'), Last(calls).output)
    /\ log' = Append(log, Event("plan"))
    /\ pc' = "encode"
    /\ UNCHANGED <<args_input, files, idx, exitCode, calls, outputs, verVars,
                   info, transfer, color_space, primaries, pix_fmt, is_probably_hdr>>

\* subprocess.run(cmd, check=True, ...) and its except clause.  The handler
\* formats e.stderr.decode(): stderr bytes that are not UTF-8 raise
\* UnicodeDecodeError inside the handler, which nothing catches.
Encode ==
    /\ pc = "encode"
    /\ \/ /\ log' = Append(log, Event("engine_ok"))
          /\ outputs' = outputs \cup {cmd[Len(cmd)]}
          /\ Return
       \/ /\ log' = Append(log, Event("engine_fail"))
          /\ outputs' = outputs
          /\ Return
       \/ /\ log' = Append(log, Event("engine_fail_undecodable"))
          /\ outputs' = outputs
          /\ pc' = "exit"
          /\ exitCode' = 1
          /\ UNCHANGED <<idx, planVars>>
    /\ UNCHANGED <<args_input, files, calls, verVars>>


(***************************************************************************)
(* verify.py                                                               *)
(***************************************************************************)
\* Names that may be present in outputs/ when the verifier starts.
VNamePool ==
    {S_a_normalized_mp4, S_d_normalized_mp4, S_e_normalized_mp4,
     S_b_normalized_mov, S_dot_normalized_mp4, S_readme_txt}

\* Stream dicts ffprobe can answer with for a produced file.
VDataPool ==
    {Restrict(r, D) :
        r \in [pix_fmt : {S_yuv420p, S_yuv420p10le},
               color_space : {S_bt709, S_bt2020nc},
               color_primaries : {S_bt709, S_bt2020},
               color_transfer : {S_bt709, S_smpte2084, S_unknown}],
        D \in SUBSET InfoKeys}

\* fnmatch of one name against "*_normalized.mp4" as glob() applies it:
\* case-sensitive, and `*` does not match a leading dot.
GlobMatch(name) ==
    /\ Len(name) >= Len(S_glob_tail)
    /\ SubSeq(name, Len(name) - Len(S_glob_tail) + 1, Len(name)) = S_glob_tail
    /\ name[1] # "."

\* glob("outputs/*_normalized.mp4") over the names present in outputs/
Glob(dir) == {n \in dir : GlobMatch(n)}

\* The dict `expected`, in insertion order
expected ==
    <<[key |-> "pix_fmt", value |-> S_yuv420p],
      [key |-> "color_space", value |-> S_bt709],
      [key |-> "color_primaries", value |-> S_bt709],
      [key |-> "color_transfer", value |-> S_bt709]>>

Compared(d) ==
    [i \in 1..Len(expected) |->
        [key |-> expected[i].key,
         expected |-> expected[i].value,
         actual |-> DictGet(d, expected[i].key, S_unknown)]]

Differs(e) == e.actual # e.expected

\* A slip that leaves the loop at the first mismatch.
MismatchesFirstOnly(d) ==
    LET all == SelectSeq(Compared(d), Differs)
    IN  IF all = <<>> THEN <<>> ELSE <<all[1]>>

\* The list `errors` built by check_file's loop
Mismatches(d) == SelectSeq(Compared(d), Differs)

\* A slip that keeps only the last file's result.
AllPassedLastOnly(ap, ok) == ok

\* The body of main()'s loop: if not check_file(...): all_passed = False
AllPassedUpdate(ap, ok) == IF ~ok THEN FALSE ELSE ap

VMain ==
    /\ vpc = "main"
    /\ \E fs \in Orderings(Glob(vdir)) :
          /\ vfiles' = fs
          /\ IF fs = <<>>
             THEN /\ vmsg' = "no_files"
                  /\ vexit' = 1
                  /\ vpc' = "exit"
                  /\ UNCHANGED <<all_passed, vidx>>
             ELSE /\ all_passed' = TRUE
                  /\ vidx' = 1
                  /\ vpc' = "loop"
                  /\ UNCHANGED <<vmsg, vexit>>
    /\ UNCHANGED <<vdir, vresults, readable, data, errors, planVars, normVars>>

\* One iteration of main()'s loop: check_file(files[vidx]) and the update
VCheckFile ==
    /\ vpc = "loop"
    /\ \/ /\ readable' = FALSE
          /\ data' = <<>>
          /\ errors' = <<>>
          /\ vresults' = Append(vresults, FALSE)
       \/ \E d \in VDataPool :
             /\ readable' = TRUE
             /\ data' = d
             /\ errors' = Mismatches(d)
             /\ vresults' = Append(vresults, errors' = <<>>)
    /\ all_passed' = AllPassedUpdate(all_passed, Last(vresults'))
    /\ IF vidx < Len(vfiles)
       THEN vidx' = vidx + 1 /\ vpc' = vpc
       ELSE vidx' = vidx /\ vpc' = "summary"
    /\ UNCHANGED <<vdir, vfiles, vmsg, vexit, planVars, normVars>>

VSummary ==
    /\ vpc = "summary"
    /\ IF all_passed
       THEN vmsg' = "all_passed" /\ vexit' = 0
       ELSE vmsg' = "some_failed" /\ vexit' = 1
    /\ vpc' = "exit"
    /\ UNCHANGED <<vdir, vfiles, vidx, all_passed, vresults, readable, data, errors,
                   planVars, normVars>>

(***************************************************************************)
(* Specifications.                                                         *)
(***************************************************************************)
BoundedSubsets(S, n) == {T \in SUBSET S : Cardinality(T) <= n}

ArgsPool ==
    {[kind |-> "dir", entries |-> E, name |-> S_empty, output |-> S_empty] :
        E \in BoundedSubsets(NamePool, MaxEntries)}
    \cup {[kind |-> "file", entries |-> {}, name |-> S_a_mp4, output |-> S_out_mp4],
          [kind |-> "invalid", entries |-> {}, name |-> S_empty, output |-> S_empty]}

VerifierIdle ==
    /\ vdir = {}
    /\ vfiles = <<>>
    /\ vidx = 0
    /\ all_passed = FALSE
    /\ vresults = <<>>
    /\ readable = FALSE
    /\ data = <<>>
    /\ errors = <<>>
    /\ vpc = "idle"
    /\ vmsg = "none"
    /\ vexit = -1

\* The normalizer, started on any command line
Init ==
    /\ args_input \in ArgsPool
    /\ files = <<>>
    /\ idx = 0
    /\ pc = "main"
    /\ exitCode = -1
    /\ calls = <<>>
    /\ log = <<>>
    /\ outputs = {}
    /\ InitLocals
    /\ VerifierIdle

Next ==
    \/ MainBatch
    \/ MainSingle
    \/ MainInvalid
    \/ CheckExists
    \/ Probe
    \/ Classify
    \/ BuildPlan
    \/ Encode

Spec == Init /\ [][Next]_vars

\* build_ffmpeg_command on every probe answer: the normalizer in single-file
\* mode, at the return of get_video_info
InitPlan ==
    /\ args_input = [kind |-> "file", entries |-> {}, name |-> S_a_mp4, output |-> S_out_mp4]
    /\ files = <<S_a_mp4>>
    /\ idx = 1
    /\ pc = "classify"
    /\ exitCode = -1
    /\ calls = <<[input |-> S_a_mp4, output |-> S_out_mp4]>>
    /\ log = <<[job |-> 1, step |-> "exists"], [job |-> 1, step |-> "probe_ok"]>>
    /\ outputs = {}
    /\ info \in FullInfoPool
    /\ transfer = <<>>
    /\ color_space = <<>>
    /\ primaries = <<>>
    /\ pix_fmt = <<>>
    /\ is_probably_hdr = FALSE
    /\ branch = "none"
    /\ cmd = <<>>
    /\ VerifierIdle

NextPlan ==
    \/ Classify
    \/ BuildPlan

SpecPlan == InitPlan /\ [][NextPlan]_vars

\* The verifier, started on any content of outputs/
InitVerify ==
    /\ vdir \in BoundedSubsets(VNamePool, MaxOutputs)
    /\ vfiles = <<>>
    /\ vidx = 0
    /\ all_passed = FALSE
    /\ vresults = <<>>
    /\ readable = FALSE
    /\ data = <<>>
    /\ errors = <<>>
    /\ vpc = "main"
    /\ vmsg = "none"
    /\ vexit = -1
    /\ args_input = [kind |-> "invalid", entries |-> {}, name |-> S_empty, output |-> S_empty]
    /\ files = <<>>
    /\ idx = 0
    /\ pc = "idle"
    /\ exitCode = -1
    /\ calls = <<>>
    /\ log = <<>>
    /\ outputs = {}
    /\ InitLocals

NextVerify ==
    \/ VMain
    \/ VCheckFile
    \/ VSummary

SpecVerify == InitVerify /\ [][NextVerify]_vars

(***************************************************************************)
(* Properties.                                                             *)
(***************************************************************************)
Range(s) == {s[i] : i \in 1..Len(s)}
IsPrefix(p, s) == Len(p) <= Len(s) /\ SubSeq(s, 1, Len(p)) = p

\* The metadata record of the probed stream: an unreported field reads "unknown"
Meta(key) == DictGet(info, key, S_unknown)

HdrSignal ==
    \/ Contains(S_bt2020, Meta("color_primaries"))
    \/ Contains(S_bt2020, Meta("color_space"))
    \/ Meta("pix_fmt") \in hdr_pix_fmts
    \/ Contains(S_10le, Meta("pix_fmt"))
    \/ Contains(S_12le, Meta("pix_fmt"))

\* C1: the arm build_ffmpeg_command takes follows the four-rule first-match
\* policy on the probed metadata: transfer arib-std-b67 gives HLG whatever the
\* other fields; otherwise transfer smpte2084 gives PQ; otherwise HeuristicHDR
\* exactly when primaries or colour space contain bt2020 or the pixel format
\* is in the 10/12-bit set or contains 10le or 12le; otherwise SDR.  SDR is
\* taken only when no HDR signal is present.
C1_ClassificationPolicy ==
    pc = "encode" =>
        /\ Meta("color_transfer") = S_arib_std_b67 => branch = "HLG"
        /\ Meta("color_transfer") = S_smpte2084 => branch = "PQ"
        /\ (Meta("color_transfer") \notin {S_arib_std_b67, S_smpte2084} /\ HdrSignal)
              => branch = "HeuristicHDR"
        /\ (Meta("color_transfer") \notin {S_arib_std_b67, S_smpte2084} /\ ~HdrSignal)
              => branch = "SDR"
        /\ branch = "SDR" => ~HdrSignal

\* C1 witness: transfer unknown, primaries bt709, pixel format yuv420p10le is
\* classified HeuristicHDR on the bit-depth signal alone.
C1_Witness ==
    /\ pc = "encode"
    /\ Meta("color_transfer") = S_unknown
    /\ Meta("color_primaries") = S_bt709
    /\ Meta("color_space") = S_bt709
    /\ Meta("pix_fmt") = S_yuv420p10le
    /\ branch = "HeuristicHDR"

ToneMapStages ==
    <<"zscale=t=linear:npl=100", "format=gbrpf32le", "zscale=p=bt709",
      "tonemap=tonemap=hable:desat=0", "zscale=t=bt709:m=bt709:r=tv", "format=yuv420p">>

\* C2: the filter chain and the encode parameters of the command depend on
\* the classification only.  HLG: linearize (npl=100), float format, primaries
\* to bt709, tonemap (hable, desat=0), conversion to bt709 limited range at
\* yuv420p; PQ and HeuristicHDR: the same stages preceded by format=p010le;
\* SDR: one normalization stage.  Always libx264, preset slow, crf 23, audio copy.
C2_PlanFromClassification ==
    pc = "encode" =>
        /\ branch \in {"HLG", "PQ", "HeuristicHDR", "SDR"}
        /\ branch = "HLG" => cmd[6] = ToneMapStages
        /\ branch \in {"PQ", "HeuristicHDR"} => cmd[6] = <<"format=p010le">> \o ToneMapStages
        /\ branch = "SDR" =>
              cmd[6] = <<"colorspace=all=bt709:trc=bt709:format=yuv420p">>
        /\ cmd[5] = "-vf"
        /\ SubSeq(cmd, 7, 14) =
              <<"-c:v", "libx264", "-preset", "slow", "-crf", "23", "-c:a", "copy">>

\* C2 witness: a stream tagged bt709 but 10-bit gets the fallback arm and the
\* seven-filter chain that starts with the 10-bit forcing stage.
C2_Witness ==
    /\ pc = "encode"
    /\ branch = "HeuristicHDR"
    /\ transfer = S_bt709
    /\ Len(cmd[6]) = 7
    /\ cmd[6][1] = "format=p010le"

\* C3: in batch mode a probe failure on one file does not end the run at
\* that file while later files remain.
C3_ProbeFailureIsolated ==
    (/\ args_input.kind = "dir"
     /\ log # <<>>
     /\ Last(log).step = "probe_fail"
     /\ idx < Len(files))
        => pc # "exit"

NoProbeFailure == \A i \in 1..Len(log) : log[i].step # "probe_fail"

\* C4: in batch mode, whatever the engine outcomes and whichever inputs are
\* missing, a run in which no probe failed ends only after
\* process_single_file was called for every selected file.
C4_EngineFailureNeverAborts ==
    (args_input.kind = "dir" /\ pc = "exit" /\ NoProbeFailure)
        => Len(calls) = Len(files)

\* C5: the normalizer exits 0 from batch mode whatever happened to the
\* individual files, exits 0 from a single-file run that reached the end of
\* process_single_file, and exits 1 when the input is neither file nor directory.
C5_ExitCode ==
    pc = "exit" =>
        /\ args_input.kind = "dir" => exitCode = 0
        /\ args_input.kind = "invalid" => exitCode = 1
        /\ (/\ args_input.kind = "file"
            /\ Last(log).step \in {"missing", "engine_ok", "engine_fail"})
              => exitCode = 0

\* An entry has an allowed extension when its name ends, after a non-empty
\* stem, with one of the four extensions in any letter case.
HasAllowedExtension(name) ==
    \E e \in {S_ext_mp4, S_ext_mov, S_ext_mkv, S_ext_avi} :
        /\ Len(name) > Len(e)
        /\ Lower(SubSeq(name, Len(name) - Len(e) + 1, Len(name))) = e

\* The output name is the input name with _normalized before its extension.
NamedAfter(out, in) ==
    \E k \in 1..Len(in) :
        LET stem == SubSeq(in, 1, k)
            ext == SubSeq(in, k + 1, Len(in))
        IN  /\ Len(ext) = 4
            /\ Lower(ext) \in {S_ext_mp4, S_ext_mov, S_ext_mkv, S_ext_avi}
            /\ out = stem \o S_normalized \o ext

\* C6: in directory mode the jobs are exactly the entries with an allowed
\* extension (letter case ignored), each once; nothing else is processed;
\* each job's output is stem + _normalized + original extension; with no
\* matching entry no job runs and the process ends with exit status 0.
C6_BatchSelectionAndNaming ==
    (args_input.kind = "dir" /\ pc # "main") =>
        /\ Range(files) = {e \in args_input.entries : HasAllowedExtension(e)}
        /\ Len(files) = Cardinality(Range(files))
        /\ Len(calls) <= Len(files)
        /\ \A i \in 1..Len(calls) :
              /\ calls[i].input = files[i]
              /\ NamedAfter(calls[i].output, calls[i].input)
        /\ \A o \in outputs : \E i \in 1..Len(calls) : calls[i].output = o
        /\ files = <<>> => (pc = "exit" /\ exitCode = 0 /\ calls = <<>> /\ log = <<>>)

\* C6 witness: a.mp4, b.mov and readme.txt: two jobs, a_normalized.mp4 and
\* b_normalized.mov written, readme.txt untouched.
C6_Witness ==
    /\ args_input.kind = "dir"
    /\ args_input.entries = {S_a_mp4, S_b_mov, S_readme_txt}
    /\ pc = "exit"
    /\ Len(calls) = 2
    /\ outputs = {S_a_normalized_mp4, S_b_normalized_mov}

FieldOrder == <<"pix_fmt", "color_space", "color_primaries", "color_transfer">>
Target(key) == IF key = "pix_fmt" THEN S_yuv420p ELSE S_bt709
FieldDiffers(key) == key \notin DOMAIN data \/ data[key] # Target(key)
Position(key) == CHOOSE i \in 1..Len(FieldOrder) : FieldOrder[i] = key

\* C7: check_file passes exactly when pix_fmt is yuv420p and the three
\* colour fields are bt709; otherwise `errors` holds exactly one entry per
\* differing field (a missing field reads "unknown" and differs), with the
\* field's name, expected and actual value, in the fixed field order, and
\* no entry for a field that matches.
C7_PerFileComparison ==
    (vresults # <<>> /\ readable) =>
        /\ Last(vresults) <=> (\A k \in InfoKeys : ~FieldDiffers(k))
        /\ \A k \in InfoKeys :
              Cardinality({i \in 1..Len(errors) : errors[i].key = k})
                  = IF FieldDiffers(k) THEN 1 ELSE 0
        /\ \A i \in 1..Len(errors) :
              /\ errors[i].key \in InfoKeys
              /\ errors[i].expected = Target(errors[i].key)
              /\ errors[i].actual =
                    IF errors[i].key \in DOMAIN data THEN data[errors[i].key] ELSE S_unknown
        /\ \A i, j \in 1..Len(errors) :
              i < j => Position(errors[i].key) < Position(errors[j].key)

\* C7 witness: a file whose colour space is missing and whose transfer is
\* smpte2084 fails with two entries, colour space first.
C7_Witness ==
    /\ vresults # <<>>
    /\ readable
    /\ DOMAIN data = InfoKeys \ {"color_space"}
    /\ data["color_transfer"] = S_smpte2084
    /\ Len(errors) = 2
    /\ errors[1] = [key |-> "color_space", expected |-> S_bt709, actual |-> S_unknown]
    /\ ~Last(vresults)

\* C8: the verifier checks every file found, exits 0 exactly when at least
\* one file was found and every file passed, exits 1 otherwise, and reports
\* zero files as its own condition, with no file checked and never as
\* "all passed".
C8_AggregateResult ==
    vpc = "exit" =>
        /\ vexit \in {0, 1}
        /\ Len(vresults) = Len(vfiles)
        /\ vexit = 0 <=> (Len(vfiles) >= 1 /\ \A i \in 1..Len(vresults) : vresults[i])
        /\ vfiles = <<>> => (vmsg = "no_files" /\ vexit = 1 /\ vresults = <<>>)
        /\ vmsg = "all_passed" <=> vexit = 0
        /\ Range(vfiles) = Glob(vdir)

\* C8 witness: two files, the first fails and the second is still checked
\* and passes; the verifier exits 1.
C8_Witness ==
    /\ vpc = "exit"
    /\ vresults = <<FALSE, TRUE>>
    /\ vexit = 1
    /\ vmsg = "some_failed"

\* C9: with outputs/ as the output directory of a batch run, every output
\* that batch mode named and wrote there is among the files the verifier's
\* glob finds there.
C9_VerifierSeesEveryOutput ==
    args_input.kind = "dir" => \A o \in outputs : o \in Glob(outputs)

JobSteps(j) ==
    LET OfJob(e) == e.job = j
        sel == SelectSeq(log, OfJob)
    IN  [i \in 1..Len(sel) |-> sel[i].step]

FinishedJob ==
    {<<"missing">>,
     <<"exists", "probe_ok", "classify", "plan", "engine_ok">>,
     <<"exists", "probe_ok", "classify", "plan", "engine_fail">>}

EndedJob ==
    FinishedJob \cup
    {<<"exists", "probe_fail">>,
     <<"exists", "probe_ok", "classify", "plan", "engine_fail_undecodable">>}

\* C10: the steps logged for one job are a prefix of: existence check, probe,
\* classification, plan, one engine invocation; the engine is never invoked
\* for a missing input or a failed probe; and every step of a job precedes
\* every step of the next job, which starts only when the job before it is
\* finished.
C10_PerJobOrdering ==
    /\ \A i, k \in 1..Len(log) : i < k => log[i].job <= log[k].job
    /\ \A i \in 1..Len(log) : log[i].job \in 1..Len(calls)
    /\ \A j \in 1..Len(calls) :
          /\ \E full \in EndedJob : IsPrefix(JobSteps(j), full)
          /\ j < Len(calls) => JobSteps(j) \in FinishedJob
          /\ Cardinality({i \in 1..Len(log) :
                 log[i].job = j /\ log[i].step \in
                    {"engine_ok", "engine_fail", "engine_fail_undecodable"}}) <= 1

\* C10 witness: a batch in which the first job's encode failed, the second
\* input was missing and the third job was encoded.
C10_Witness ==
    /\ pc = "exit"
    /\ Len(calls) = 3
    /\ JobSteps(1) = <<"exists", "probe_ok", "classify", "plan", "engine_fail">>
    /\ JobSteps(2) = <<"missing">>
    /\ JobSteps(3) = <<"exists", "probe_ok", "classify", "plan", "engine_ok">>
====
